---- MODULE Spec2Model ----
(***************************************************************************)
(* Model of the JIRA daily report generator (main.go, slash-server.go).    *)
(*                                                                         *)
(* Spec          one batch run of runDailyReport: configuration check,     *)
(*               the pagination loop of fetchJiraIssues against a remote   *)
(*               result set, buildPersonStatusGroups, the thread-root      *)
(*               post and the per-person replies of                        *)
(*               sendDailyReportThreaded.                                  *)
(* FairFetchSpec the configuration check and the pagination loop alone,    *)
(*               with weak fairness of the loop's steps.                   *)
(* SpecEphemeral groupIssuesByStatus and buildEphemeralStatusBlocks        *)
(*               applied to the issues filtered for one user.              *)
(* SpecParse     one parse of a command text (processSlashCommand).        *)
(* SpecFilter    one call of filterIssuesByUser.                           *)
(* SpecSlash     the slash command server: handleMyIssuesCommand and the   *)
(*               processSlashCommand goroutines it starts, interleaved.    *)
(* SpecMain      the process in either mode: one batch run or the server.  *)
(*                                                                         *)
(* Display names and summaries are byte strings (sequences of byte         *)
(* values), so that sort.Strings and escapeSlackText are computed; status, *)
(* component, label and URL values are only compared for equality and are  *)
(* TLA+ strings.                                                           *)
(***************************************************************************)
EXTENDS Integers, Sequences, FiniteSets, TLC

VARIABLES
    env,                \* which environment variables are non-empty
    remote,             \* the result set the JIRA server holds for the query
    pc,                 \* position of runDailyReport
    startAt,            \* fetchJiraIssues: local startAt
    allResults,         \* fetchJiraIssues: local allResults
    jiraRequests,       \* log of search requests: [startAt, outcome]
    issues,             \* runDailyReport: value returned by fetchJiraIssues
    personStatusGroups, \* runDailyReport: value of buildPersonStatusGroups
    threadTS,           \* runDailyReport: ts returned for the thread root
    messageCount,       \* sendDailyReportThreaded: local messageCount
    slackPosts,         \* log of chat.postMessage requests
    exitCode,           \* process exit code, NoExit while running
    runError,           \* the failure runDailyReport printed before exiting
    userIssues,         \* processSlashCommand: value of filterIssuesByUser
    includeAll,         \* processSlashCommand: the --all flag
    statusGroups,       \* processSlashCommand: value of groupIssuesByStatus
    ephBlocks,          \* processSlashCommand: value of buildEphemeralStatusBlocks
    ephPc,              \* position of the interactive build steps
    served,             \* log of the HTTP responses the listener wrote
    tasks,              \* the processSlashCommand goroutines, by command
    call                \* a single call of a pure function and its result

vars == <<env, remote, pc, startAt, allResults, jiraRequests, issues,
          personStatusGroups, threadTS, messageCount, slackPosts, exitCode, runError,
          userIssues, includeAll, statusGroups, ephBlocks, ephPc, served, tasks, call>>

batchVars == <<env, remote, pc, startAt, allResults, jiraRequests, issues,
               personStatusGroups, threadTS, messageCount, slackPosts, exitCode,
               runError>>

ephVars == <<userIssues, includeAll, statusGroups, ephBlocks, ephPc>>

slashVars == <<served, tasks, call>>

(***************************************************************************)
(* Bounds of the model.                                                    *)
(***************************************************************************)
MaxRecords == 3     \* longest remote result set of mixed records
MaxBulk == 201      \* longest remote result set of uniform records
BulkStride == 25    \* distance between the sizes of uniform result sets
ServerCap == 50     \* a page size the server may cap a request to
MaxRequests == 6    \* search requests one run may issue in the model
MaxFirst == 47      \* interactive: most issues in the first status
MaxSecond == 3      \* interactive: most issues in each further status
MaxWords == 3       \* most words of a name in a command text
MaxFiltered == 2    \* most records handed to a single call of filterIssuesByUser
MaxCommands == 2    \* HTTP requests the listener receives

(***************************************************************************)
(* Program constants.                                                      *)
(***************************************************************************)
maxResults == 100
maxBlocks == 48
batchSummaryLimit == 65
ephSummaryLimit == 100

\* main.go:28-37
excludedComponents == <<"User Interface">>
excludedLabels == <<"user-interface", "mtv-storage-offload", "mtv-copy-offload">>

\* main.go:433
batchStatusOrder ==
    <<"In Progress", "Modified", "POST", "ON_QA", "MODIFIED", "Open", "Closed", "Archived">>

\* slash-server.go:250
ephStatusOrder ==
    <<"Open", "In Progress", "Modified", "Closed", "Archived", "POST", "ON_QA",
      "MODIFIED", "Verified", "Done">>

(***************************************************************************)
(* Generic helpers.                                                        *)
(***************************************************************************)
Range(s) == {s[i] : i \in DOMAIN s}

Min(a, b) == IF a < b THEN a ELSE b

RECURSIVE Flatten(_)
Flatten(ss) == IF ss = <<>> THEN <<>> ELSE Head(ss) \o Flatten(Tail(ss))

\* All orders in which the elements of a finite set can be enumerated.
RECURSIVE Orders(_)
Orders(S) ==
    IF S = {} THEN {<<>>}
    ELSE UNION {{<<x>> \o o : o \in Orders(S \ {x})} : x \in S}

\* Byte strings.
Jane == <<74, 97, 110, 101>>
John == <<74, 111, 104, 110>>
Zed == <<90, 101, 100>>
Unassigned == <<85, 110, 97, 115, 115, 105, 103, 110, 101, 100>>
Ellipsis == <<46, 46, 46>>
Amp == 38
Lt == 60
Gt == 62
AmpEntity == <<38, 97, 109, 112, 59>>
LtEntity == <<38, 108, 116, 59>>
GtEntity == <<38, 103, 116, 59>>

\* Go's string comparison: bytewise lexicographic.
RECURSIVE StrLess(_, _)
StrLess(a, b) ==
    IF b = <<>> THEN FALSE
    ELSE IF a = <<>> THEN TRUE
    ELSE IF Head(a) # Head(b) THEN Head(a) < Head(b)
    ELSE StrLess(Tail(a), Tail(b))

\* The keys of the map in an order nobody sorted: largest first.
RECURSIVE SortStringsNot(_)
SortStringsNot(S) ==
    IF S = {} THEN <<>>
    ELSE LET m == CHOOSE x \in S : \A y \in S \ {x} : StrLess(y, x)
         IN <<m>> \o SortStringsNot(S \ {m})

\* sort.Strings over the keys of a map.
RECURSIVE SortStrings(_)
SortStrings(S) ==
    IF S = {} THEN <<>>
    ELSE LET m == CHOOSE x \in S : \A y \in S \ {x} : StrLess(x, y)
         IN <<m>> \o SortStrings(S \ {m})

(***************************************************************************)
(* escapeSlackText and the summary truncation.                             *)
(***************************************************************************)
\* strings.ReplaceAll for an old text of one byte: every occurrence is
\* replaced, the other bytes are kept.  The text is taken in halves to keep
\* the evaluation of long texts shallow.
RECURSIVE ReplaceAll(_, _, _)
ReplaceAll(text, old, new) ==
    IF text = <<>> THEN <<>>
    ELSE IF Len(text) = 1 THEN (IF text[1] = old THEN new ELSE text)
    ELSE LET half == Len(text) \div 2
         IN ReplaceAll(SubSeq(text, 1, half), old, new)
                \o ReplaceAll(SubSeq(text, half + 1, Len(text)), old, new)

\* escapeSlackText with the ampersand replaced last, after the entities of
\* the brackets were written.
escapeSlackTextAmpLast(text) ==
    ReplaceAll(ReplaceAll(ReplaceAll(text, Lt, LtEntity), Gt, GtEntity), Amp, AmpEntity)

escapeSlackText(text) ==
    ReplaceAll(ReplaceAll(ReplaceAll(text, Amp, AmpEntity), Lt, LtEntity), Gt, GtEntity)

\* The truncation that makes room for the dots inside the limit.
TruncateSummaryInside(summary, limit) ==
    IF Len(summary) > limit THEN SubSeq(summary, 1, limit - 3) \o Ellipsis ELSE summary

TruncateSummary(summary, limit) ==
    IF Len(summary) > limit THEN SubSeq(summary, 1, limit) \o Ellipsis ELSE summary

(***************************************************************************)
(* The polymorphic pull-request field, as json.Unmarshal leaves it in an   *)
(* interface{}: nil, string, []interface{}, float64, bool or map.          *)
(***************************************************************************)
PRNull == [tag |-> "null", s |-> "", items |-> <<>>]
PRString(x) == [tag |-> "string", s |-> x, items |-> <<>>]
PRList(xs) == [tag |-> "list", s |-> "", items |-> xs]
PRNumber == [tag |-> "number", s |-> "", items |-> <<>>]
PRObject == [tag |-> "object", s |-> "", items |-> <<>>]
ElemString(x) == [tag |-> "string", s |-> x]
ElemNumber == [tag |-> "number", s |-> ""]
ElemNull == [tag |-> "null", s |-> ""]

\* ExtractLoop without the test for the empty string.
RECURSIVE ExtractLoopKeepEmpty(_, _)
ExtractLoopKeepEmpty(items, prs) ==
    IF items = <<>> THEN prs
    ELSE LET item == Head(items)
         IN ExtractLoopKeepEmpty(Tail(items),
                                 IF item.tag = "string" THEN Append(prs, item.s) ELSE prs)

\* main.go:238-244: the loop over the elements of a list
RECURSIVE ExtractLoop(_, _)
ExtractLoop(items, prs) ==
    IF items = <<>> THEN prs
    ELSE LET item == Head(items)
         IN ExtractLoop(Tail(items),
                        IF item.tag = "string" /\ item.s # ""
                        THEN Append(prs, item.s) ELSE prs)

extractPRs(prField) ==
    IF prField.tag = "null" THEN <<>>
    ELSE IF prField.tag = "string"
         THEN (IF prField.s # "" THEN <<prField.s>> ELSE <<>>)
    ELSE IF prField.tag = "list" THEN ExtractLoop(prField.items, <<>>)
    ELSE <<>>

\* shouldFilterOut without the loop over the labels.
shouldFilterOutComponentsOnly(components, labels) ==
    \E i \in DOMAIN components : \E j \in DOMAIN excludedComponents :
        components[i] = excludedComponents[j]

\* main.go:251-273
shouldFilterOut(components, labels) ==
    \/ \E i \in DOMAIN components : \E j \in DOMAIN excludedComponents :
           components[i] = excludedComponents[j]
    \/ \E i \in DOMAIN labels : \E j \in DOMAIN excludedLabels :
           labels[i] = excludedLabels[j]

(***************************************************************************)
(* Records of a JiraSearchResponse and the maps built from them.           *)
(***************************************************************************)
NoPerson == [present |-> FALSE, DisplayName |-> <<>>]
Person(name) == [present |-> TRUE, DisplayName |-> name]

EmptyMap == <<>>

IssueItem(issue, prs) ==
    [Key |-> issue.Key, Summary |-> issue.Summary, Status |-> issue.Status,
     GitPullRequest |-> prs]

\* ResponsiblePerson with the assignee tried before the QA contact.
ResponsiblePersonAssigneeFirst(issue) ==
    IF issue.Assignee.present THEN issue.Assignee.DisplayName
    ELSE IF (issue.Status = "ON_QA" \/ issue.Status = "MODIFIED") /\ issue.QAContact.present
    THEN issue.QAContact.DisplayName
    ELSE Unassigned

\* main.go:388-393
ResponsiblePerson(issue) ==
    IF (issue.Status = "ON_QA" \/ issue.Status = "MODIFIED") /\ issue.QAContact.present
    THEN issue.QAContact.DisplayName
    ELSE IF issue.Assignee.present THEN issue.Assignee.DisplayName
    ELSE Unassigned

\* main.go:384
EpicWithoutPR(issue, prs) == issue.IssueType = "Epic" /\ Len(prs) = 0

\* main.go:378-386: the record is not skipped by either continue
Survives(issue) ==
    /\ ~shouldFilterOut(issue.Components, issue.Labels)
    /\ ~EpicWithoutPR(issue, extractPRs(issue.GitPullRequest))

\* main.go:374-402, over the issues of all responses in order: each surviving
\* record is appended to the slice of its person, so a person's slice holds the
\* person's surviving records in the order of the responses.
PersonIssues(recs) ==
    LET kept == SelectSeq(recs, Survives)
        items == [i \in DOMAIN kept |->
                     IssueItem(kept[i], extractPRs(kept[i].GitPullRequest))]
        owner == [i \in DOMAIN kept |-> ResponsiblePerson(kept[i])]
    IN [p \in Range(owner) |->
           LET mine == SelectSeq([i \in DOMAIN kept |-> i], LAMBDA i : owner[i] = p)
           IN [j \in DOMAIN mine |-> items[mine[j]]]]

\* The buckets with the newest item first.
groupIssuesByStatusReversed(items) ==
    [s \in {items[i].Status : i \in DOMAIN items} |->
        LET bucket == SelectSeq(items, LAMBDA item : item.Status = s)
        IN [i \in DOMAIN bucket |-> bucket[Len(bucket) + 1 - i]]]

\* main.go:415-419 and slash-server.go:238-244: each item is appended to the
\* slice of its status, so a bucket holds its items in the order of the input.
groupIssuesByStatus(items) ==
    [s \in {items[i].Status : i \in DOMAIN items} |->
        SelectSeq(items, LAMBDA item : item.Status = s)]

ResponseIssues(responses) == Flatten([i \in DOMAIN responses |-> responses[i].Issues])

buildPersonStatusGroups(responses) ==
    LET personIssues == PersonIssues(ResponseIssues(responses))
        people == SortStrings(DOMAIN personIssues)
    IN [i \in DOMAIN people |->
           [Person |-> people[i],
            StatusGroups |-> groupIssuesByStatus(personIssues[people[i]]),
            TotalIssues |-> Len(personIssues[people[i]])]]

countTotalIssues(responses) == Len(ResponseIssues(responses))

(***************************************************************************)
(* Slack blocks.                                                           *)
(***************************************************************************)
HeaderBlock(title) == [kind |-> "header", title |-> title]
DividerBlock == [kind |-> "divider"]
SeparatorBlock == [kind |-> "separator"]
ClosingBlock == [kind |-> "closing"]
PersonBlock(person, total) == [kind |-> "person", person |-> person, total |-> total]
StatusBlock(status, count) == [kind |-> "status", status |-> status, count |-> count]

\* "<url|PRn>" links joined by spaces; the empty sequence renders as "–".
PRLinks(prs) == [i \in DOMAIN prs |-> [url |-> prs[i], n |-> i]]

ItemBlock(issue, limit) ==
    [kind |-> "item", key |-> issue.Key,
     summary |-> TruncateSummary(escapeSlackText(issue.Summary), limit),
     status |-> issue.Status, pr |-> PRLinks(issue.GitPullRequest)]

ItemBlocks(items, limit) == [i \in DOMAIN items |-> ItemBlock(items[i], limit)]

\* main.go:469-503 and 520-554: a status header and one block per issue
StatusSection(status, items) ==
    <<StatusBlock(status, Len(items))>> \o ItemBlocks(items, batchSummaryLimit)

\* main.go:462-504: the statuses of statusOrder the group has, in that order
RECURSIVE PreferredSections(_, _)
PreferredSections(order, groups) ==
    IF order = <<>> THEN <<>>
    ELSE IF Head(order) \in DOMAIN groups
         THEN StatusSection(Head(order), groups[Head(order)])
                  \o PreferredSections(Tail(order), groups)
         ELSE PreferredSections(Tail(order), groups)

\* OtherSections with the second loop left out.
OtherSectionsNone(ranged, groups) == <<>>

\* main.go:507-555: the other statuses, in the order the map is ranged over
RECURSIVE OtherSections(_, _)
OtherSections(ranged, groups) ==
    IF ranged = <<>> THEN <<>>
    ELSE StatusSection(Head(ranged), groups[Head(ranged)])
             \o OtherSections(Tail(ranged), groups)

OtherStatuses(order, groups) == DOMAIN groups \ Range(order)

\* main.go:440-564: the blocks of one person's reply
PersonMessage(group, count, ranged) ==
    (IF count = 0 THEN <<SeparatorBlock>> ELSE <<>>)
        \o <<PersonBlock(group.Person, group.TotalIssues)>>
        \o PreferredSections(batchStatusOrder, group.StatusGroups)
        \o OtherSections(ranged, group.StatusGroups)
        \o <<ClosingBlock>>

\* main.go:134-137
headerBlocks == <<HeaderBlock("Daily JIRA Summary"), DividerBlock>>

\* main.go:177-187: the chat.postMessage payload
SlackPayload(ts, blocks) ==
    [has_thread_ts |-> ts # "", thread_ts |-> ts, blocks |-> blocks]

(***************************************************************************)
(* The remote result sets a run is started over.  A record's key is its    *)
(* position in the result set, so keys are unique.                         *)
(***************************************************************************)
SummaryText == <<97, 60, 98, 38, 99>>

StatusChoices == {"POST", "ON_QA", "MODIFIED", "New"}
ComponentChoices == {<<>>, <<"Core", "User Interface">>, <<"user interface">>}
LabelChoices == {<<>>, <<"ui", "mtv-copy-offload">>, <<"User-Interface">>}
PRChoices ==
    {PRNull, PRString(""), PRString("u1"), PRList(<<>>), PRNumber, PRObject,
     PRList(<<ElemString(""), ElemNumber>>),
     PRList(<<ElemString(""), ElemString("u1"), ElemNumber, ElemNull, ElemString("u2")>>)}

\* main.go:116: the records the daily query selects
MatchesDailyJQL(x) ==
    \/ x.Status \in {"POST", "ON_QA", "MODIFIED"}
    \/ x.IssueType = "Epic" /\ x.Status # "Closed"

Shape(status, assignee, qa, type, components, labels, pr) ==
    [Summary |-> SummaryText, Status |-> status, Assignee |-> assignee,
     QAContact |-> qa, IssueType |-> type, Components |-> components,
     Labels |-> labels, GitPullRequest |-> pr]

SingleShapes ==
    {x \in [Summary : {SummaryText}, Status : StatusChoices,
            Assignee : {NoPerson, Person(Jane)}, QAContact : {NoPerson, Person(John)},
            IssueType : {"Epic", "Bug"}, Components : ComponentChoices,
            Labels : LabelChoices, GitPullRequest : PRChoices] : MatchesDailyJQL(x)}

MixShapes ==
    {Shape("POST", Person(Zed), NoPerson, "Bug", <<>>, <<>>, PRString("u1")),
     Shape("MODIFIED", Person(Zed), Person(John), "Bug", <<>>, <<>>, PRNull),
     Shape("New", Person(Jane), NoPerson, "Epic", <<>>, <<>>,
           PRList(<<ElemString("u1"), ElemString("u2")>>)),
     Shape("Verified", Person(Jane), Person(John), "Epic", <<>>, <<>>, PRString("u1")),
     Shape("ON_QA", NoPerson, NoPerson, "Bug", <<>>, <<>>, PRNull),
     Shape("POST", Person(Jane), NoPerson, "Epic", <<>>, <<"user-interface">>, PRNull),
     Shape("MODIFIED", Person(Jane), NoPerson, "Bug", <<>>, <<>>, PRNull),
     Shape("ON_QA", Person(Zed), Person(Jane), "Bug", <<>>, <<>>, PRString("u1"))}

BulkShape == Shape("POST", Person(Jane), NoPerson, "Bug", <<>>, <<>>, PRString("u1"))

WithKeys(shapes) ==
    [i \in DOMAIN shapes |->
        [Key |-> i, Summary |-> shapes[i].Summary, Status |-> shapes[i].Status,
         Assignee |-> shapes[i].Assignee, QAContact |-> shapes[i].QAContact,
         IssueType |-> shapes[i].IssueType, Components |-> shapes[i].Components,
         Labels |-> shapes[i].Labels, GitPullRequest |-> shapes[i].GitPullRequest]]

\* Uniform result sets come in the sizes around the multiples of BulkStride.
BulkSizes == {n \in 1..MaxBulk : n % BulkStride \in {0, 1}}

MixSeqs == UNION {[1..n -> MixShapes] : n \in 0..MaxRecords}

Remotes ==
    {WithKeys(<<x>>) : x \in SingleShapes}
        \cup {WithKeys(q) : q \in MixSeqs}
        \cup {WithKeys([i \in 1..n |-> BulkShape]) : n \in BulkSizes}

ShortRemotes == {WithKeys(q) : q \in {m \in MixSeqs : Len(m) <= 1}}

\* os.Getenv of the four variables: TRUE when the value is non-empty
Envs == [JIRA_URL : BOOLEAN, JIRA_TOKEN : BOOLEAN, SLACK_BOT_TOKEN : BOOLEAN,
         SLACK_CHANNEL : BOOLEAN]

\* main.go:194: the only Slack Web API method the program posts to
chatPostMessage == "chat.postMessage"

TSValues == {"1762000000.000100", "1762000000.000200"}

HttpFailures == {"transport", "status", "decode"}
SlackFailures == {"transport", "decode", "not_ok"}

NoExit == -1

\* The failure a run reports: the step that failed, the person whose reply it
\* was (main.go:570) and the cause.
RunError(step, person, cause) == [step |-> step, person |-> person, cause |-> cause]
NoError == RunError("none", <<>>, "")

NoCall == [op |-> "none"]

(***************************************************************************)
(* The JIRA server: a request at offset s is answered with the records     *)
(* starting at s, as many as asked for or fewer.                           *)
(***************************************************************************)
PageLens(s) ==
    LET rem == IF Len(remote) > s THEN Len(remote) - s ELSE 0
    IN {0, Min(ServerCap, rem), Min(maxResults, rem)}

ServerResponse(s, n) ==
    [Total |-> Len(remote), StartAt |-> s, MaxResults |-> n,
     Issues |-> SubSeq(remote, s + 1, s + n)]

(***************************************************************************)
(* runDailyReport                                                          *)
(***************************************************************************)
InitEphemeralIdle ==
    /\ userIssues = <<>>
    /\ includeAll = FALSE
    /\ statusGroups = EmptyMap
    /\ ephBlocks = <<>>
    /\ ephPc = "idle"

InitSlashIdle ==
    /\ served = <<>>
    /\ tasks = <<>>
    /\ call = NoCall

InitRun ==
    /\ pc = "start"
    /\ startAt = 0
    /\ allResults = <<>>
    /\ jiraRequests = <<>>
    /\ issues = <<>>
    /\ personStatusGroups = <<>>
    /\ threadTS = ""
    /\ messageCount = 0
    /\ slackPosts = <<>>
    /\ exitCode = NoExit
    /\ runError = NoError
    /\ InitEphemeralIdle
    /\ InitSlashIdle

AllSet == [JIRA_URL |-> TRUE, JIRA_TOKEN |-> TRUE, SLACK_BOT_TOKEN |-> TRUE,
           SLACK_CHANNEL |-> TRUE]

\* A run with a missing variable never looks at the remote result set, so such
\* runs are started over the result sets of at most one record only.
Init ==
    /\ \/ env = AllSet /\ remote \in Remotes
       \/ env \in Envs \ {AllSet} /\ remote \in ShortRemotes
    /\ InitRun

\* MissingCredentials not looking at SLACK_CHANNEL.
MissingCredentialsButChannel(e) == ~e.JIRA_URL \/ ~e.JIRA_TOKEN \/ ~e.SLACK_BOT_TOKEN

\* main.go:105
MissingCredentials(e) ==
    ~e.JIRA_URL \/ ~e.JIRA_TOKEN \/ ~e.SLACK_BOT_TOKEN \/ ~e.SLACK_CHANNEL

\* main.go:100-110
CheckConfig ==
    /\ pc = "start"
    /\ IF MissingCredentials(env)
       THEN pc' = "exited" /\ exitCode' = 1
            /\ runError' = RunError("config", <<>>, "missing")
       ELSE pc' = "fetch" /\ exitCode' = exitCode /\ runError' = runError
    /\ UNCHANGED <<env, remote, startAt, allResults, jiraRequests, issues,
                   personStatusGroups, threadTS, messageCount, slackPosts>>
    /\ UNCHANGED <<ephVars, slashVars>>

\* FetchErrorResult returning the pages fetched so far.
FetchErrorPartial(accumulated) == accumulated

\* main.go:320, 326, 330, 335: return nil, err
FetchErrorResult(accumulated) == <<>>

\* NextStartAt asking for the same offset again.
NextStartAtAgain(s, pageLen) == s

\* NextStartAt advancing by the length of the page received.
NextStartAtByPage(s, pageLen) == s + pageLen

\* main.go:347
NextStartAt(s, pageLen) == s + maxResults

\* main.go:341
FetchedAll(s, result) == s + Len(result.Issues) >= result.Total

\* main.go:287-336 with a failing request, and main.go:119-122
FetchPageFail ==
    /\ pc = "fetch"
    /\ Len(jiraRequests) < MaxRequests
    /\ \E outcome \in HttpFailures :
          /\ jiraRequests' = Append(jiraRequests,
                                    [startAt |-> startAt, outcome |-> outcome])
          /\ runError' = RunError("fetch", <<>>, outcome)
    /\ issues' = FetchErrorResult(allResults)
    /\ pc' = "exited"
    /\ exitCode' = 1
    /\ UNCHANGED <<env, remote, startAt, allResults, personStatusGroups, threadTS,
                   messageCount, slackPosts>>
    /\ UNCHANGED <<ephVars, slashVars>>

\* main.go:287-348 with a successful request, and main.go:350
FetchPageOk ==
    /\ pc = "fetch"
    /\ Len(jiraRequests) < MaxRequests
    /\ \E n \in PageLens(startAt) :
          LET result == ServerResponse(startAt, n)
          IN /\ allResults' = Append(allResults, result)
             /\ IF FetchedAll(startAt, result)
                THEN /\ issues' = allResults'
                     /\ pc' = "group"
                     /\ startAt' = startAt
                ELSE /\ issues' = issues
                     /\ pc' = pc
                     /\ startAt' = NextStartAt(startAt, Len(result.Issues))
    /\ jiraRequests' = Append(jiraRequests, [startAt |-> startAt, outcome |-> "ok"])
    /\ UNCHANGED <<env, remote, personStatusGroups, threadTS, messageCount, slackPosts,
                   exitCode, runError>>
    /\ UNCHANGED <<ephVars, slashVars>>

\* main.go:124-127
BuildGroups ==
    /\ pc = "group"
    /\ personStatusGroups' = buildPersonStatusGroups(issues)
    /\ pc' = "root"
    /\ UNCHANGED <<env, remote, startAt, allResults, jiraRequests, issues, threadTS,
                   messageCount, slackPosts, exitCode, runError>>
    /\ UNCHANGED <<ephVars, slashVars>>

\* ReplyThreadTS dropping the thread identifier.
ReplyNoThread(ts) == ""

\* main.go:148: the thread identifier handed to sendDailyReportThreaded
ReplyThreadTS(ts) == ts

\* main.go:132-145
PostRoot ==
    /\ pc = "root"
    /\ \/ \E ts \in TSValues :
             /\ slackPosts' = Append(slackPosts,
                    [method |-> chatPostMessage,
                     payload |-> SlackPayload("", headerBlocks), outcome |-> "ok",
                     ts |-> ts])
             /\ threadTS' = ts
             /\ pc' = "replies"
             /\ exitCode' = exitCode
             /\ runError' = runError
       \/ \E outcome \in SlackFailures :
             /\ slackPosts' = Append(slackPosts,
                    [method |-> chatPostMessage,
                     payload |-> SlackPayload("", headerBlocks), outcome |-> outcome,
                     ts |-> ""])
             /\ threadTS' = ""
             /\ pc' = "exited"
             /\ exitCode' = 1
             /\ runError' = RunError("root", <<>>, outcome)
    /\ UNCHANGED <<env, remote, startAt, allResults, jiraRequests, issues,
                   personStatusGroups, messageCount>>
    /\ UNCHANGED <<ephVars, slashVars>>

\* AfterReplyError going on with the next person.
AfterReplyErrorContinue == "replies"

\* main.go:568-571 and main.go:149-152: the error of a reply is returned at
\* once and ends the run
AfterReplyError == "exited"

\* main.go:438-579: one iteration of the loop over personGroups
SendReply ==
    /\ pc = "replies"
    /\ messageCount < Len(personStatusGroups)
    /\ LET group == personStatusGroups[messageCount + 1]
       IN \E ranged \in Orders(OtherStatuses(batchStatusOrder, group.StatusGroups)) :
          \E outcome \in {"ok"} \cup SlackFailures :
             /\ slackPosts' = Append(slackPosts,
                    [method |-> chatPostMessage,
                     payload |-> SlackPayload(ReplyThreadTS(threadTS),
                                              PersonMessage(group, messageCount, ranged)),
                     outcome |-> outcome,
                     ts |-> IF outcome = "ok" THEN threadTS ELSE ""])
             /\ IF outcome = "ok"
                THEN pc' = pc /\ exitCode' = exitCode /\ runError' = runError
                ELSE /\ pc' = AfterReplyError
                     /\ exitCode' = 1
                     /\ runError' = RunError("reply", group.Person, outcome)
    /\ messageCount' = messageCount + 1
    /\ UNCHANGED <<env, remote, startAt, allResults, jiraRequests, issues,
                   personStatusGroups, threadTS>>
    /\ UNCHANGED <<ephVars, slashVars>>

\* main.go:581 and main.go:154-155: every reply was sent
Finish ==
    /\ pc = "replies"
    /\ messageCount = Len(personStatusGroups)
    /\ pc' = "done"
    /\ exitCode' = 0
    /\ UNCHANGED <<env, remote, startAt, allResults, jiraRequests, issues,
                   personStatusGroups, threadTS, messageCount, slackPosts, runError>>
    /\ UNCHANGED <<ephVars, slashVars>>

Next ==
    \/ CheckConfig
    \/ FetchPageFail
    \/ FetchPageOk
    \/ BuildGroups
    \/ PostRoot
    \/ SendReply
    \/ Finish

Spec == Init /\ [][Next]_vars

\* fetchJiraIssues alone, over the uniform and the short result sets.  The loop
\* runs in one goroutine and every request it issues is answered, with a page
\* or with a failure, so its steps are weakly fair.
InitFetch ==
    /\ InitRun
    /\ env = AllSet
    /\ remote \in ShortRemotes \cup {WithKeys([i \in 1..n |-> BulkShape]) : n \in BulkSizes}

NextFetch ==
    \/ CheckConfig
    \/ FetchPageFail
    \/ FetchPageOk

FairFetchSpec == InitFetch /\ [][NextFetch]_vars /\ WF_vars(NextFetch)

(***************************************************************************)
(* The interactive result: groupIssuesByStatus and                         *)
(* buildEphemeralStatusBlocks (slash-server.go:203-206).                   *)
(***************************************************************************)
SummaryBlock(total, statuses, lines) ==
    [kind |-> "summary", total |-> total, statuses |-> statuses, lines |-> lines]
MoreBlock(remaining) == [kind |-> "more", remaining |-> remaining]
MoreInStatusBlock(inStatus, remaining) ==
    [kind |-> "more_in_status", inStatus |-> inStatus, remaining |-> remaining]

\* slash-server.go:253-256
RECURSIVE SumOfLengths(_, _)
SumOfLengths(groups, statuses) ==
    IF statuses = {} THEN 0
    ELSE LET s == CHOOSE x \in statuses : TRUE
         IN Len(groups[s]) + SumOfLengths(groups, statuses \ {s})

TotalIssues(groups) == SumOfLengths(groups, DOMAIN groups)

\* slash-server.go:259-278: one line per status, the statuses of statusOrder
\* first, then the others in the order the map is ranged over
SummaryLines(groups, ranged) ==
    LET listed == SelectSeq(ephStatusOrder, LAMBDA s : s \in DOMAIN groups)
        order == listed \o ranged
    IN [i \in DOMAIN order |-> [status |-> order[i], count |-> Len(groups[order[i]])]]

\* A loop over the issues of one status that never looks at the block count.
RECURSIVE IssueLoopNoCap(_, _, _, _)
IssueLoopNoCap(items, i, total, st) ==
    IF i > Len(items) THEN st
    ELSE IssueLoopNoCap(items, i + 1, total,
             [st EXCEPT !.blocks = Append(@, ItemBlock(items[i], ephSummaryLimit)),
                        !.currentBlocks = @ + 1,
                        !.issuesShown = @ + 1])

\* slash-server.go:343-389: the loop over the issues of one status
RECURSIVE IssueLoop(_, _, _, _)
IssueLoop(items, i, total, st) ==
    IF i > Len(items) THEN st
    ELSE IF st.currentBlocks >= maxBlocks
         THEN IF ~st.truncated
              THEN [st EXCEPT
                       !.blocks = Append(@, MoreInStatusBlock(Len(items) - (i - 1),
                                                              total - st.issuesShown)),
                       !.truncated = TRUE]
              ELSE st
    ELSE IssueLoop(items, i + 1, total,
             [st EXCEPT !.blocks = Append(@, ItemBlock(items[i], ephSummaryLimit)),
                        !.currentBlocks = @ + 1,
                        !.issuesShown = @ + 1])

\* A loop over statusOrder that forgets that it has already truncated: it goes
\* on after the marker and marks every status that does not fit.
RECURSIVE StatusLoopMarkEach(_, _, _, _)
StatusLoopMarkEach(order, groups, total, st) ==
    IF order = <<>> THEN st
    ELSE IF Head(order) \notin DOMAIN groups
         THEN StatusLoopMarkEach(Tail(order), groups, total, st)
    ELSE IF st.currentBlocks + 2 > maxBlocks
         THEN StatusLoopMarkEach(Tail(order), groups, total,
                  [st EXCEPT !.blocks = Append(@, MoreBlock(total - st.issuesShown))])
    ELSE LET items == groups[Head(order)]
             headed == [st EXCEPT
                           !.blocks = Append(@, StatusBlock(Head(order), Len(items))),
                           !.currentBlocks = @ + 1]
         IN StatusLoopMarkEach(Tail(order), groups, total,
                [IssueLoop(items, 1, total, headed) EXCEPT !.truncated = FALSE])

\* slash-server.go:310-390: the loop over statusOrder
RECURSIVE StatusLoop(_, _, _, _)
StatusLoop(order, groups, total, st) ==
    IF order = <<>> THEN st
    ELSE IF Head(order) \notin DOMAIN groups
         THEN StatusLoop(Tail(order), groups, total, st)
    ELSE IF st.currentBlocks + 2 > maxBlocks
         THEN IF ~st.truncated
              THEN [st EXCEPT !.blocks = Append(@, MoreBlock(total - st.issuesShown)),
                              !.truncated = TRUE]
              ELSE st
    ELSE LET items == groups[Head(order)]
             headed == [st EXCEPT
                           !.blocks = Append(@, StatusBlock(Head(order), Len(items))),
                           !.currentBlocks = @ + 1]
         IN StatusLoop(Tail(order), groups, total, IssueLoop(items, 1, total, headed))

\* slash-server.go:248-393
buildEphemeralStatusBlocks(username, groups, all, ranged) ==
    LET total == TotalIssues(groups)
        title == [user |-> username, all |-> all]
        start == [blocks |-> <<HeaderBlock(title),
                               SummaryBlock(total, Cardinality(DOMAIN groups),
                                            SummaryLines(groups, ranged)),
                               DividerBlock>>,
                  currentBlocks |-> 3, issuesShown |-> 0, truncated |-> FALSE]
    IN StatusLoop(ephStatusOrder, groups, total, start).blocks

\* The issues found for the user: runs of issues of the same status, keyed by
\* their position.
StatusRun(status, n) ==
    [i \in 1..n |-> [Summary |-> SummaryText, Status |-> status,
                     GitPullRequest |-> IF i % 2 = 0 THEN <<"u1">> ELSE <<>>]]

ItemsWithKeys(items) ==
    [i \in DOMAIN items |->
        [Key |-> i, Summary |-> items[i].Summary, Status |-> items[i].Status,
         GitPullRequest |-> items[i].GitPullRequest]]

UserIssueSets ==
    {ItemsWithKeys(StatusRun("Open", a) \o StatusRun("POST", b) \o StatusRun("New", c)
                       \o StatusRun("Release Pending", d)) :
        a \in 0..MaxFirst, b \in 0..MaxSecond, c \in 0..MaxSecond, d \in 0..1}
        \ {<<>>}

\* The variables of runDailyReport where no report is run.
InitRunUnused ==
    /\ startAt = 0
    /\ allResults = <<>>
    /\ jiraRequests = <<>>
    /\ issues = <<>>
    /\ personStatusGroups = <<>>
    /\ threadTS = ""
    /\ messageCount = 0
    /\ slackPosts = <<>>
    /\ exitCode = NoExit
    /\ runError = NoError

InitBatchIdle ==
    /\ env = AllSet
    /\ remote = <<>>
    /\ pc = "idle"
    /\ InitRunUnused

\* slash-server.go:194-200: the issues filtered for the user, not empty
InitEphemeral ==
    /\ InitBatchIdle
    /\ InitSlashIdle
    /\ userIssues \in UserIssueSets
    /\ includeAll \in BOOLEAN
    /\ statusGroups = EmptyMap
    /\ ephBlocks = <<>>
    /\ ephPc = "filtered"

\* slash-server.go:203
GroupByStatus ==
    /\ ephPc = "filtered"
    /\ statusGroups' = groupIssuesByStatus(userIssues)
    /\ ephPc' = "grouped"
    /\ UNCHANGED <<userIssues, includeAll, ephBlocks>>
    /\ UNCHANGED <<batchVars, slashVars>>

\* slash-server.go:206
BuildBlocks ==
    /\ ephPc = "grouped"
    /\ \E ranged \in Orders(OtherStatuses(ephStatusOrder, statusGroups)) :
          ephBlocks' = buildEphemeralStatusBlocks(Jane, statusGroups, includeAll, ranged)
    /\ ephPc' = "built"
    /\ UNCHANGED <<userIssues, includeAll, statusGroups>>
    /\ UNCHANGED <<batchVars, slashVars>>

NextEphemeral ==
    \/ GroupByStatus
    \/ BuildBlocks

SpecEphemeral == InitEphemeral /\ [][NextEphemeral]_vars

(***************************************************************************)
(* The text of a slash command: strings.TrimSpace, strings.Contains,       *)
(* strings.ReplaceAll and strings.ToLower over byte strings of ASCII       *)
(* characters (slash-server.go:156-161 and 601, 634-635).                  *)
(***************************************************************************)
Doe == <<68, 111, 101>>
FlagAll == <<45, 45, 97, 108, 108>>
Blank == <<32>>

IsSpace(b) == b \in {9, 10, 11, 12, 13, 32}

RECURSIVE TrimLeft(_)
TrimLeft(s) == IF s # <<>> /\ IsSpace(Head(s)) THEN TrimLeft(Tail(s)) ELSE s

RECURSIVE TrimRight(_)
TrimRight(s) ==
    IF s # <<>> /\ IsSpace(s[Len(s)]) THEN TrimRight(SubSeq(s, 1, Len(s) - 1)) ELSE s

TrimSpace(s) == TrimRight(TrimLeft(s))

HasPrefix(s, prefix) == Len(prefix) <= Len(s) /\ SubSeq(s, 1, Len(prefix)) = prefix

Contains(s, substr) ==
    \E k \in 0..(Len(s) - Len(substr)) : SubSeq(s, k + 1, k + Len(substr)) = substr

\* strings.ReplaceAll for a non-empty old: the non-overlapping occurrences,
\* from the left
RECURSIVE ReplaceAllSub(_, _, _)
ReplaceAllSub(s, old, new) ==
    IF s = <<>> THEN <<>>
    ELSE IF HasPrefix(s, old)
         THEN new \o ReplaceAllSub(SubSeq(s, Len(old) + 1, Len(s)), old, new)
    ELSE <<Head(s)>> \o ReplaceAllSub(Tail(s), old, new)

\* ToLower leaving every byte as it is.
ToLowerIdentity(s) == s

ToLower(s) == [i \in DOMAIN s |-> IF s[i] \in 65..90 THEN s[i] + 32 ELSE s[i]]

\* slash-server.go:156-161: text, includeAll and username
ParseCommandText(raw) ==
    LET text == TrimSpace(raw)
    IN [includeAll |-> Contains(text, FlagAll),
        username |-> TrimSpace(ReplaceAllSub(text, FlagAll, <<>>))]

(***************************************************************************)
(* filterIssuesByUser                                                      *)
(***************************************************************************)
\* slash-server.go:625-635
MatchesUser(issue, usernameLower) ==
    LET assigneeName == IF issue.Assignee.present THEN issue.Assignee.DisplayName
                        ELSE <<>>
        qaContactName == IF issue.QAContact.present THEN issue.QAContact.DisplayName
                         ELSE <<>>
    IN \/ Contains(ToLower(assigneeName), usernameLower)
       \/ Contains(ToLower(qaContactName), usernameLower)

\* slash-server.go:597-647, over the issues of all responses in order
filterIssuesByUser(responses, username, skipFilters) ==
    LET usernameLower == ToLower(username)
        kept == SelectSeq(ResponseIssues(responses),
                          LAMBDA issue : /\ skipFilters \/ Survives(issue)
                                         /\ MatchesUser(issue, usernameLower))
    IN [i \in DOMAIN kept |-> IssueItem(kept[i], extractPRs(kept[i].GitPullRequest))]

(***************************************************************************)
(* Single calls of the two pure functions of the interactive pipeline.     *)
(***************************************************************************)
RECURSIVE JoinWords(_)
JoinWords(words) ==
    IF words = <<>> THEN <<>>
    ELSE IF Len(words) = 1 THEN Head(words)
    ELSE Head(words) \o Blank \o JoinWords(Tail(words))

InsertAt(words, p, token) == SubSeq(words, 1, p) \o <<token>> \o SubSeq(words, p + 1, Len(words))

NoFlag == -1

NameWords == UNION {[1..n -> {John, Doe}] : n \in 1..MaxWords}

\* The command texts: the words of a name separated by single spaces, the flag
\* token absent or inserted as a word of its own before, between or after
\* them, and the whole text possibly surrounded by blanks.
ParseCalls ==
    UNION {{[op |-> "parse", words |-> w, flagAt |-> p,
             text |-> pad \o JoinWords(IF p = NoFlag THEN w
                                       ELSE InsertAt(w, p, FlagAll)) \o pad,
             done |-> FALSE, includeAll |-> FALSE, username |-> <<>>] :
               p \in {NoFlag} \cup 0..Len(w), pad \in {<<>>, Blank}} :
           w \in NameWords}

InitParse ==
    /\ InitBatchIdle
    /\ InitEphemeralIdle
    /\ served = <<>>
    /\ tasks = <<>>
    /\ call \in ParseCalls

\* slash-server.go:156-161
ParseCommand ==
    /\ call.op = "parse"
    /\ ~call.done
    /\ LET parsed == ParseCommandText(call.text)
       IN call' = [call EXCEPT !.done = TRUE, !.includeAll = parsed.includeAll,
                               !.username = parsed.username]
    /\ UNCHANGED <<batchVars, ephVars, served, tasks>>

SpecParse == InitParse /\ [][ParseCommand]_vars

FilterShapes ==
    {Shape("POST", Person(Jane), NoPerson, "Bug", <<>>, <<>>, PRString("u1")),
     Shape("Closed", Person(Zed), Person(John), "Bug", <<>>, <<>>, PRNull),
     Shape("New", NoPerson, Person(Jane), "Epic", <<>>, <<>>, PRNull),
     Shape("ON_QA", NoPerson, NoPerson, "Bug", <<>>, <<>>, PRNull),
     Shape("POST", Person(Jane), NoPerson, "Bug", <<"User Interface">>, <<>>, PRNull),
     Shape("MODIFIED", Person(John), Person(Zed), "Epic", <<>>, <<"user-interface">>,
           PRString("u1"))}

FilterRecords == UNION {[1..n -> FilterShapes] : n \in 0..MaxFiltered}

\* The pages a result set can arrive in: one page, or a first record and the
\* rest.
Paged(recs) ==
    {<<[Total |-> Len(recs), StartAt |-> 0, MaxResults |-> Len(recs), Issues |-> recs]>>}
        \cup (IF Len(recs) < 2 THEN {}
              ELSE {<<[Total |-> Len(recs), StartAt |-> 0, MaxResults |-> 1,
                       Issues |-> SubSeq(recs, 1, 1)],
                      [Total |-> Len(recs), StartAt |-> 1, MaxResults |-> Len(recs) - 1,
                       Issues |-> SubSeq(recs, 2, Len(recs))]>>})

\* The names asked for: "jane", "AN", "John", "Doe" and the empty name.
FilterNames == {<<106, 97, 110, 101>>, <<65, 78>>, John, Doe, <<>>}

FilterCalls ==
    {[op |-> "filter", responses |-> pages, username |-> name, skipFilters |-> skip,
      done |-> FALSE, result |-> <<>>] :
        pages \in UNION {Paged(WithKeys(recs)) : recs \in FilterRecords},
        name \in FilterNames, skip \in BOOLEAN}

InitFilter ==
    /\ InitBatchIdle
    /\ InitEphemeralIdle
    /\ served = <<>>
    /\ tasks = <<>>
    /\ call \in FilterCalls

\* slash-server.go:597-647
FilterByUser ==
    /\ call.op = "filter"
    /\ ~call.done
    /\ call' = [call EXCEPT
                   !.done = TRUE,
                   !.result = filterIssuesByUser(call.responses, call.username,
                                                 call.skipFilters)]
    /\ UNCHANGED <<batchVars, ephVars, served, tasks>>

SpecFilter == InitFilter /\ [][FilterByUser]_vars

(***************************************************************************)
(* The slash command server: handleMyIssuesCommand and one goroutine of    *)
(* processSlashCommand per accepted command.  A goroutine takes one step   *)
(* per HTTP exchange, and the steps of different goroutines interleave.    *)
(***************************************************************************)
\* SlashPayload visible to the whole channel.
SlashPayloadInChannel(text, blocks) ==
    [response_type |-> "in_channel", text |-> text, blocks |-> blocks]

\* slash-server.go:51-55 with the ResponseType of slash-server.go:132, 208, 673
SlashPayload(text, blocks) ==
    [response_type |-> "ephemeral", text |-> text, blocks |-> blocks]

\* The text of a message: which format string it is and what is interpolated.
MessageText(msg, name, cause) == [msg |-> msg, name |-> name, cause |-> cause]
NoText == MessageText("", <<>>, "")

\* slash-server.go:131-134
AckPayload == SlashPayload(MessageText("fetching", <<>>, ""), <<>>)

\* The response_url Slack hands out with the n-th request.
ResponseURLOf(n) == [hook |-> n]

\* slash-server.go:222-235: the query depends on the flag only
buildJQLQuery(username, all) == [project |-> "MTV", all |-> all]

\* The records of the project a query selects.
SearchResult(jql) == IF jql.all THEN remote ELSE SelectSeq(remote, MatchesDailyJQL)

SlashPageLens(result, s) ==
    LET rem == IF Len(result) > s THEN Len(result) - s ELSE 0
    IN {0, Min(ServerCap, rem), Min(maxResults, rem)}

SlashServerResponse(result, s, n) ==
    [Total |-> Len(result), StartAt |-> s, MaxResults |-> n,
     Issues |-> SubSeq(result, s + 1, s + n)]

\* slash-server.go:711-724
RealNameOf(user) ==
    IF user.ProfileDisplayName # <<>> THEN user.ProfileDisplayName
    ELSE IF user.RealName # <<>> THEN user.RealName
    ELSE IF user.ProfileRealName # <<>> THEN user.ProfileRealName
    ELSE user.Name

SlackUser(display, real, profileReal, name) ==
    [ProfileDisplayName |-> display, RealName |-> real, ProfileRealName |-> profileReal,
     Name |-> name]

Profiles ==
    {SlackUser(Jane, John, John, Zed), SlackUser(<<>>, <<>>, <<>>, <<>>)}

LookupFailures == {"not_ok"}
SearchFailures == {"status"}
PostOutcomes == {"ok", "status"}

\* "--all", "jane" and "John --all"
SlashTexts == {FlagAll, <<106, 97, 110, 101>>, John \o Blank \o FlagAll}

\* The requests that reach /slack/issues.
Requests ==
    {[method |-> "POST", formOk |-> TRUE, Text |-> t, UserID |-> "U1"] : t \in SlashTexts}
        \cup {[method |-> "POST", formOk |-> FALSE, Text |-> <<>>, UserID |-> "U1"],
              [method |-> "GET", formOk |-> TRUE, Text |-> <<>>, UserID |-> "U1"]}

SlashRemotes ==
    {WithKeys(<<Shape("POST", Person(Jane), NoPerson, "Bug", <<"User Interface">>, <<>>,
                      PRString("u1")),
                Shape("Closed", Person(John), Person(Jane), "Bug", <<>>, <<>>, PRNull),
                Shape("New", Person(Zed), NoPerson, "Epic", <<>>, <<>>, PRNull)>>),
     WithKeys(<<Shape("ON_QA", Person(John), NoPerson, "Bug", <<>>, <<>>, PRNull)>>)}

SlashEnvs ==
    {AllSet, [AllSet EXCEPT !.JIRA_URL = FALSE], [AllSet EXCEPT !.JIRA_TOKEN = FALSE],
     [AllSet EXCEPT !.SLACK_BOT_TOKEN = FALSE]}

\* http.Error that writes the acknowledgment after the status line.
HttpErrorWithAck(status, message) ==
    [status |-> status, json |-> TRUE, plain |-> message,
     payload |-> AckPayload, after |-> {}]

\* http.Error: a plain-text response with the given status
HttpError(status, message) ==
    [status |-> status, json |-> FALSE, plain |-> message,
     payload |-> [response_type |-> "", text |-> NoText, blocks |-> <<>>], after |-> {}]

\* The goroutines reading one command variable they share, which holds the
\* command of the first goroutine.
NewTaskSharedCommand(n, r) ==
    [request |-> n,
     cmd |-> IF tasks = <<>>
             THEN [Text |-> r.Text, UserID |-> r.UserID, ResponseURL |-> ResponseURLOf(n)]
             ELSE tasks[1].cmd,
     pc |-> "start", username |-> <<>>, includeAll |-> FALSE, startAt |-> 0,
     allResults |-> <<>>, userIssues |-> <<>>, built |-> FALSE, trace |-> <<>>,
     errors |-> <<>>]

\* slash-server.go:137: the goroutine started for the n-th request; trace is
\* the log of the HTTP requests it makes and errors the failures it runs into
NewTask(n, r) ==
    [request |-> n,
     cmd |-> [Text |-> r.Text, UserID |-> r.UserID, ResponseURL |-> ResponseURLOf(n)],
     pc |-> "start", username |-> <<>>, includeAll |-> FALSE, startAt |-> 0,
     allResults |-> <<>>, userIssues |-> <<>>, built |-> FALSE, trace |-> <<>>,
     errors |-> <<>>]

Failed(task) == task.errors # <<>>

InitSlash ==
    /\ env \in SlashEnvs
    /\ remote \in SlashRemotes
    /\ pc = "serving"
    /\ InitRunUnused
    /\ InitEphemeralIdle
    /\ served = <<>>
    /\ tasks = <<>>
    /\ call = NoCall

\* ListenerUp with the listener gone once a goroutine has failed.
ListenerUpUntilFailure == \A i \in DOMAIN tasks : ~Failed(tasks[i])

\* slash-server.go:80-88: ListenAndServe serves every request in a goroutine
\* of its own and processSlashCommand never ends the process
ListenerUp == TRUE

\* An entry of the log of the listener: the response, and of the request it
\* answers the method and whether its form can be parsed.
Answered(r, response) == response @@ [method |-> r.method, formOk |-> r.formOk]

\* slash-server.go:101-138
handleMyIssuesCommand ==
    /\ pc = "serving"
    /\ Len(served) < MaxCommands
    /\ ListenerUp
    /\ \E r \in Requests :
          IF r.method # "POST"
          THEN /\ served' = Append(served,
                                   Answered(r, HttpError(405, "Method not allowed")))
               /\ tasks' = tasks
          ELSE IF ~r.formOk
          THEN /\ served' = Append(served,
                                   Answered(r, HttpError(400, "Failed to parse form")))
               /\ tasks' = tasks
          ELSE /\ served' = Append(served,
                      Answered(r, [status |-> 200, json |-> TRUE, plain |-> "",
                                   payload |-> AckPayload,
                                   after |-> {i \in DOMAIN tasks : Failed(tasks[i])}]))
               /\ tasks' = Append(tasks, NewTask(Len(served) + 1, r))
    /\ UNCHANGED <<batchVars, ephVars, call>>

\* slash-server.go:650-668: one POST to the response_url
ResponsePost(url, payload, outcome) ==
    [api |-> "response_url", url |-> url, payload |-> payload, outcome |-> outcome]

\* sendErrorResponse posting nothing.
ErrorPostsNone(url, text, outcome) == <<>>

\* slash-server.go:671-680: the requests sendErrorResponse makes
ErrorPosts(url, text, outcome) == <<ResponsePost(url, SlashPayload(text, <<>>), outcome)>>

\* NeedsLookup asking the directory for every command.
NeedsLookupAlways(username) == TRUE

\* slash-server.go:164
NeedsLookup(username) == username = <<>>

\* slash-server.go:671-680 and the return that follows every call of it
sendErrorResponse(task, text, outcome) ==
    [task EXCEPT !.trace = @ \o ErrorPosts(task.cmd.ResponseURL, text, outcome),
                 !.errors = IF outcome = "ok" THEN @ ELSE Append(@, "send_error"),
                 !.pc = "done"]

\* slash-server.go:141-173, up to the first HTTP exchange of the goroutine
StartTask(t) ==
    /\ tasks[t].pc = "start"
    /\ LET task == tasks[t]
           parsed == ParseCommandText(task.cmd.Text)
       IN IF ~env.JIRA_URL \/ ~env.JIRA_TOKEN
          THEN \E outcome \in PostOutcomes :
                  tasks' = [tasks EXCEPT ![t] =
                      sendErrorResponse([task EXCEPT !.errors = Append(@, "config")],
                                        MessageText("config_jira", <<>>, ""), outcome)]
          ELSE IF ~env.SLACK_BOT_TOKEN
          THEN \E outcome \in PostOutcomes :
                  tasks' = [tasks EXCEPT ![t] =
                      sendErrorResponse([task EXCEPT !.errors = Append(@, "config")],
                                        MessageText("config_slack", <<>>, ""), outcome)]
          ELSE tasks' = [tasks EXCEPT ![t] =
                   [task EXCEPT !.includeAll = parsed.includeAll,
                                !.username = parsed.username,
                                !.pc = IF NeedsLookup(parsed.username) THEN "lookup"
                                       ELSE "fetch"]]
    /\ UNCHANGED <<batchVars, ephVars, served, call>>

\* slash-server.go:164-173 and 683-725
LookupUser(t) ==
    /\ tasks[t].pc = "lookup"
    /\ LET task == tasks[t]
       IN \/ \E cause \in LookupFailures, outcome \in PostOutcomes :
                tasks' = [tasks EXCEPT ![t] =
                    sendErrorResponse(
                        [task EXCEPT
                            !.trace = Append(@, [api |-> "users.info",
                                                 user |-> task.cmd.UserID,
                                                 outcome |-> cause]),
                            !.errors = Append(@, "lookup")],
                        MessageText("specify_name", <<>>, ""), outcome)]
          \/ \E user \in Profiles :
                tasks' = [tasks EXCEPT ![t] =
                    [task EXCEPT
                        !.trace = Append(@, [api |-> "users.info",
                                             user |-> task.cmd.UserID,
                                             outcome |-> "ok"]),
                        !.username = RealNameOf(user),
                        !.pc = "fetch"]]
    /\ UNCHANGED <<batchVars, ephVars, served, call>>

SearchRequests(task) == SelectSeq(task.trace, LAMBDA e : e.api = "jira.search")

\* slash-server.go:178-191 with a failing search request (main.go:287-336)
SlashFetchFail(t) ==
    /\ tasks[t].pc = "fetch"
    /\ Len(SearchRequests(tasks[t])) < MaxRequests
    /\ LET task == tasks[t]
           jql == buildJQLQuery(task.username, task.includeAll)
       IN \E cause \in SearchFailures, outcome \in PostOutcomes :
             tasks' = [tasks EXCEPT ![t] =
                 sendErrorResponse(
                     [task EXCEPT
                         !.trace = Append(@, [api |-> "jira.search", jql |-> jql,
                                              startAt |-> task.startAt,
                                              outcome |-> cause]),
                         !.allResults = FetchErrorResult(@),
                         !.errors = Append(@, "fetch")],
                     MessageText("fetch_failed", <<>>, cause), outcome)]
    /\ UNCHANGED <<batchVars, ephVars, served, call>>

\* slash-server.go:178-181 with a successful search request (main.go:287-350)
SlashFetchOk(t) ==
    /\ tasks[t].pc = "fetch"
    /\ Len(SearchRequests(tasks[t])) < MaxRequests
    /\ LET task == tasks[t]
           jql == buildJQLQuery(task.username, task.includeAll)
       IN \E n \in SlashPageLens(SearchResult(jql), task.startAt) :
             LET result == SlashServerResponse(SearchResult(jql), task.startAt, n)
                 done == FetchedAll(task.startAt, result)
             IN tasks' = [tasks EXCEPT ![t] =
                    [task EXCEPT
                        !.trace = Append(@, [api |-> "jira.search", jql |-> jql,
                                             startAt |-> task.startAt,
                                             outcome |-> "ok"]),
                        !.allResults = Append(@, result),
                        !.startAt = IF done THEN @
                                    ELSE NextStartAt(@, Len(result.Issues)),
                        !.pc = IF done THEN "filter" ELSE "fetch"]]
    /\ UNCHANGED <<batchVars, ephVars, served, call>>

\* NoIssuesText leaving the name out.
NoIssuesTextAnonymous(username) == MessageText("no_issues", <<>>, "")

\* slash-server.go:197-198
NoIssuesText(username) == MessageText("no_issues", username, "")

\* slash-server.go:194-217
Respond(t) ==
    /\ tasks[t].pc = "filter"
    /\ LET task == tasks[t]
           found == filterIssuesByUser(task.allResults, task.username, TRUE)
           groups == groupIssuesByStatus(found)
       IN \E outcome \in PostOutcomes :
             IF Len(found) = 0
             THEN tasks' = [tasks EXCEPT ![t] =
                      sendErrorResponse(task, NoIssuesText(task.username), outcome)]
             ELSE \E ranged \in Orders(OtherStatuses(ephStatusOrder, groups)) :
                     tasks' = [tasks EXCEPT ![t] =
                         [task EXCEPT
                             !.userIssues = found,
                             !.built = TRUE,
                             !.trace = Append(@, ResponsePost(task.cmd.ResponseURL,
                                 SlashPayload(NoText,
                                     buildEphemeralStatusBlocks(task.username, groups,
                                         task.includeAll, ranged)),
                                 outcome)),
                             !.errors = IF outcome = "ok" THEN @
                                        ELSE Append(@, "send_result"),
                             !.pc = "done"]]
    /\ UNCHANGED <<batchVars, ephVars, served, call>>

NextSlash ==
    \/ handleMyIssuesCommand
    \/ \E t \in DOMAIN tasks : StartTask(t)
    \/ \E t \in DOMAIN tasks : LookupUser(t)
    \/ \E t \in DOMAIN tasks : SlashFetchFail(t)
    \/ \E t \in DOMAIN tasks : SlashFetchOk(t)
    \/ \E t \in DOMAIN tasks : Respond(t)

SpecSlash == InitSlash /\ [][NextSlash]_vars

\* main.go:82-95: the process either serves slash commands (pc = "serving")
\* or runs one report
InitMain == Init \/ InitSlash

NextMain == Next \/ NextSlash

SpecMain == InitMain /\ [][NextMain]_vars

(***************************************************************************)
(* The rendering of one issue in the three places that render issues: the  *)
(* batch replies (main.go:469-503), the interactive result                 *)
(* (slash-server.go:343-389) and the status-group replies                  *)
(* (slash-server.go:547-592).                                              *)
(***************************************************************************)
\* slash-server.go:575
statusGroupSummaryLimit == 150

\* slash-server.go:547-592
buildStatusGroupBlocks(status, items, isFirstChunk) ==
    (IF isFirstChunk THEN <<[kind |-> "group", status |-> status], DividerBlock>>
     ELSE <<>>)
        \o ItemBlocks(items, statusGroupSummaryLimit)

MaxPlain == 152
MaxMarkup == 51

\* A text of n bytes that repeats the pattern.
Repeated(pattern, n) == [i \in 1..n |-> pattern[((i - 1) % Len(pattern)) + 1]]

\* Summaries of letters only, summaries full of the three special characters,
\* and summaries that hold an entity already.
Summaries ==
    {Repeated(<<97>>, n) : n \in 0..MaxPlain}
        \cup {Repeated(<<Lt, 97, Amp, 98, Gt>>, n) : n \in 1..MaxMarkup}
        \cup {Repeated(AmpEntity, n) : n \in 1..MaxMarkup}

RenderCalls ==
    {[op |-> "render", done |-> FALSE, context |-> "none", blocks |-> <<>>,
      issue |-> [Key |-> 1, Summary |-> x, Status |-> "POST",
                 GitPullRequest |-> <<"u1">>]] : x \in Summaries}

InitRender ==
    /\ InitBatchIdle
    /\ InitEphemeralIdle
    /\ served = <<>>
    /\ tasks = <<>>
    /\ call \in RenderCalls

Rendered(context, blocks) ==
    /\ call.op = "render"
    /\ ~call.done
    /\ call' = [call EXCEPT !.done = TRUE, !.context = context, !.blocks = blocks]
    /\ UNCHANGED <<batchVars, ephVars, served, tasks>>

\* main.go:440-564: the reply of the person the issue is grouped under
RenderBatch ==
    LET group == [Person |-> Jane,
                  StatusGroups |-> groupIssuesByStatus(<<call.issue>>),
                  TotalIssues |-> 1]
    IN Rendered("batch", PersonMessage(group, 0, <<>>))

\* slash-server.go:203-206
RenderInteractive ==
    Rendered("interactive",
             buildEphemeralStatusBlocks(Jane, groupIssuesByStatus(<<call.issue>>),
                                        FALSE, <<>>))

\* slash-server.go:488
RenderStatusGroup ==
    Rendered("status-group",
             buildStatusGroupBlocks(call.issue.Status, <<call.issue>>, TRUE))

NextRender == RenderBatch \/ RenderInteractive \/ RenderStatusGroup

SpecRender == InitRender /\ [][NextRender]_vars

(***************************************************************************)
(* Properties.                                                             *)
(***************************************************************************)
\* The run has built its person groups.
Grouped == pc \in {"root", "replies", "done"} \/ slackPosts # <<>>

\* fetchJiraIssues has returned without an error.
FetchReturned == pc = "group" \/ Grouped

FetchedRecords == ResponseIssues(issues)

KeysOfGroup(g) ==
    UNION {{g.StatusGroups[s][i].Key : i \in DOMAIN g.StatusGroups[s]} :
              s \in DOMAIN g.StatusGroups}

GroupedKeys == UNION {KeysOfGroup(personStatusGroups[i]) : i \in DOMAIN personStatusGroups}

ItemsOfGroup(g) ==
    UNION {Range(g.StatusGroups[s]) : s \in DOMAIN g.StatusGroups}

BlocksOfKind(blocks, kind) == SelectSeq(blocks, LAMBDA b : b.kind = kind)

HasExcludedComponent(r) ==
    \E i \in DOMAIN r.Components : r.Components[i] \in Range(excludedComponents)

HasExcludedLabel(r) ==
    \E i \in DOMAIN r.Labels : r.Labels[i] \in Range(excludedLabels)

\* C1: once the groups are built, a fetched record has an item in them if and
\* only if none of its components and none of its labels is excluded and it is
\* not an Epic whose pull-request field yields no link.
C1_FilterIff ==
    Grouped =>
        \A i \in DOMAIN FetchedRecords :
            LET r == FetchedRecords[i]
            IN r.Key \in GroupedKeys <=>
                   /\ ~HasExcludedComponent(r)
                   /\ ~HasExcludedLabel(r)
                   /\ (r.IssueType # "Epic" \/ Len(extractPRs(r.GitPullRequest)) > 0)

C1_Witness ==
    /\ Grouped
    /\ \E i, j \in DOMAIN FetchedRecords :
          /\ FetchedRecords[i].Key \in GroupedKeys
          /\ FetchedRecords[j].Key \notin GroupedKeys
          /\ HasExcludedLabel(FetchedRecords[j])
          /\ ~HasExcludedComponent(FetchedRecords[j])

\* C2: every item of the groups sits under the QA contact's name when its
\* record has status ON_QA or MODIFIED and a QA contact, else under the
\* assignee's name when there is an assignee, else under "Unassigned".
C2_ResponsiblePerson ==
    Grouped =>
        \A i \in DOMAIN FetchedRecords : \A k \in DOMAIN personStatusGroups :
            LET r == FetchedRecords[i]
                g == personStatusGroups[k]
            IN r.Key \in KeysOfGroup(g) =>
                   g.Person =
                       IF r.Status \in {"ON_QA", "MODIFIED"} /\ r.QAContact.present
                       THEN r.QAContact.DisplayName
                       ELSE IF r.Assignee.present THEN r.Assignee.DisplayName
                       ELSE Unassigned

C2_Witness ==
    /\ Grouped
    /\ \E i \in DOMAIN FetchedRecords : \E k \in DOMAIN personStatusGroups :
          LET r == FetchedRecords[i]
              g == personStatusGroups[k]
          IN /\ r.Key \in KeysOfGroup(g)
             /\ r.Status = "MODIFIED"
             /\ r.QAContact.present
             /\ r.Assignee.present
             /\ r.Assignee.DisplayName # r.QAContact.DisplayName
             /\ g.Person = r.QAContact.DisplayName

\* The server answered every request with at least one record, unless no
\* record was left at the offset asked for.
NoEmptyPage ==
    \A i \in DOMAIN allResults :
        allResults[i].Issues # <<>> \/ allResults[i].StartAt >= allResults[i].Total

\* C3: when fetchJiraIssues returns without an error, the pages it returns hold
\* the records of the remote result set, each once and in order, also when the
\* server answered with pages shorter than asked for.
C3_FullResultSet == (FetchReturned /\ NoEmptyPage) => FetchedRecords = remote

\* C4: the pagination loop is left after finitely many requests, whatever
\* page lengths the server answers with.
C4_FetchTerminates == (pc = "fetch") ~> (pc # "fetch")

C4_Witness ==
    /\ pc = "group"
    /\ Len(jiraRequests) >= 3
    /\ \E i \in DOMAIN allResults :
          /\ allResults[i].Issues = <<>>
          /\ allResults[i].StartAt < allResults[i].Total

\* C5: a failed page request is the last request of the run, and the run then
\* holds no results: nothing is returned, grouped or posted.
C5_NoPartialResults ==
    \A i \in DOMAIN jiraRequests :
        jiraRequests[i].outcome # "ok" =>
            /\ i = Len(jiraRequests)
            /\ pc = "exited"
            /\ issues = <<>>
            /\ personStatusGroups = <<>>
            /\ slackPosts = <<>>

C5_Witness ==
    /\ Len(jiraRequests) >= 2
    /\ jiraRequests[Len(jiraRequests)].outcome = "status"
    /\ \E i \in DOMAIN allResults : allResults[i].Issues # <<>>

\* The non-empty strings of a pull-request field, in their order.
NonEmptyStrings(prField) ==
    IF prField.tag = "string" THEN (IF prField.s = "" THEN <<>> ELSE <<prField.s>>)
    ELSE IF prField.tag = "list"
         THEN LET kept == SelectSeq(prField.items,
                                    LAMBDA e : e.tag = "string" /\ e.s # "")
              IN [i \in DOMAIN kept |-> kept[i].s]
    ELSE <<>>

\* C6: the links of every item are exactly the non-empty string entries of its
\* record's pull-request field, in their order, for every shape of the field.
C6_ExtractPRs ==
    Grouped =>
        \A k \in DOMAIN personStatusGroups :
            \A item \in ItemsOfGroup(personStatusGroups[k]) :
                item.GitPullRequest = NonEmptyStrings(remote[item.Key].GitPullRequest)

C6_Witness ==
    /\ Grouped
    /\ \E k \in DOMAIN personStatusGroups :
          \E item \in ItemsOfGroup(personStatusGroups[k]) :
              /\ item.GitPullRequest = <<"u1", "u2">>
              /\ Len(remote[item.Key].GitPullRequest.items) = 5

\* C7: every message of the batch report holds at most maxBlocks blocks.
C7_MessagesWithinLimit ==
    \A i \in DOMAIN slackPosts : Len(slackPosts[i].payload.blocks) <= maxBlocks

ReplyBlocks(i) == slackPosts[i + 1].payload.blocks

AllReplyBlocks == Flatten([i \in 1..(Len(slackPosts) - 1) |-> ReplyBlocks(i)])

\* C8: when every send succeeded, the replies hold one item block for every
\* item of every group and no other, and the reply of a group holds one
\* status header for every status bucket of the group.
C8_RepliesReconstructContent ==
    pc = "done" =>
        LET itemBlocks == BlocksOfKind(AllReplyBlocks, "item")
        IN /\ {itemBlocks[i].key : i \in DOMAIN itemBlocks} = GroupedKeys
           /\ Len(itemBlocks) = Cardinality(GroupedKeys)
           /\ Len(slackPosts) = Len(personStatusGroups) + 1
           /\ \A k \in DOMAIN personStatusGroups :
                 LET headers == BlocksOfKind(ReplyBlocks(k), "status")
                     buckets == personStatusGroups[k].StatusGroups
                 IN /\ {headers[i].status : i \in DOMAIN headers} = DOMAIN buckets
                    /\ Len(headers) = Cardinality(DOMAIN buckets)
                    /\ \A i \in DOMAIN headers :
                          headers[i].count = Len(buckets[headers[i].status])

C8_Witness ==
    /\ pc = "done"
    /\ Len(personStatusGroups) >= 2
    /\ \E k \in DOMAIN personStatusGroups :
          /\ "New" \in DOMAIN personStatusGroups[k].StatusGroups
          /\ "Verified" \in DOMAIN personStatusGroups[k].StatusGroups

IsMarker(b) == b.kind \in {"more", "more_in_status"}

\* C9: every issue of the interactive result is rendered as an item block or
\* counted by a truncation marker.
C9_NoSilentTruncation ==
    ephPc = "built" =>
        LET shown == Len(BlocksOfKind(ephBlocks, "item"))
            markers == SelectSeq(ephBlocks, IsMarker)
        IN /\ markers = <<>> => shown = Len(userIssues)
           /\ \A i \in DOMAIN markers :
                 markers[i].remaining = Len(userIssues) - shown

IsRootPost(post) ==
    /\ ~post.payload.has_thread_ts
    /\ post.payload.blocks = headerBlocks

\* The post is the reply of the k-th person group, addressed to the thread of
\* the root message.
IsReplyOf(post, k) ==
    /\ post.payload.has_thread_ts
    /\ post.payload.thread_ts = slackPosts[1].ts
    /\ LET persons == BlocksOfKind(post.payload.blocks, "person")
       IN /\ Len(persons) = 1
          /\ persons[1].person = personStatusGroups[k].Person

RunEnded == pc \in {"done", "exited"}

\* C10 as stated: the root is posted first, nothing follows a failed root, and
\* after a root that was posted the run posts one reply per person group.
C10_OneReplyPerGroup ==
    /\ slackPosts # <<>> => IsRootPost(slackPosts[1])
    /\ (slackPosts # <<>> /\ slackPosts[1].outcome # "ok") => Len(slackPosts) = 1
    /\ (RunEnded /\ slackPosts # <<>> /\ slackPosts[1].outcome = "ok") =>
           /\ Len(slackPosts) = Len(personStatusGroups) + 1
           /\ \A k \in DOMAIN personStatusGroups :
                 /\ slackPosts[k + 1].outcome = "ok"
                 /\ IsReplyOf(slackPosts[k + 1], k)

\* C10 as amended: the root is posted first, nothing follows a failed root,
\* the replies are those of the first groups in the order of the groups, each
\* addressed to the root's thread, only the last one may have failed, and a
\* run that ends with no failed send has posted one reply per group.
C10_RepliesInOrder ==
    /\ slackPosts # <<>> => IsRootPost(slackPosts[1])
    /\ (slackPosts # <<>> /\ slackPosts[1].outcome # "ok") => Len(slackPosts) = 1
    /\ Len(slackPosts) <= Len(personStatusGroups) + 1
    /\ \A i \in DOMAIN slackPosts :
          /\ i > 1 => IsReplyOf(slackPosts[i], i - 1)
          /\ i < Len(slackPosts) => slackPosts[i].outcome = "ok"
    /\ (RunEnded /\ slackPosts # <<>> /\ slackPosts[Len(slackPosts)].outcome = "ok") =>
           Len(slackPosts) = Len(personStatusGroups) + 1

C10_Witness ==
    /\ pc = "done"
    /\ Len(personStatusGroups) >= 2
    /\ Len(slackPosts) = 3
    /\ slackPosts[3].payload.thread_ts = slackPosts[1].ts

FailedPosts == {i \in DOMAIN slackPosts : slackPosts[i].outcome # "ok"}

\* C11: when the send of the k-th reply fails, that request is the last one of
\* the run, every request before it succeeded, the error the run reports is
\* the one of the k-th person's reply with the cause of that failure, and the
\* requests already made stay as they were: every request is a
\* chat.postMessage, none deletes or retracts, and no step changes a request
\* of the log.
C11_FirstReplyFailureEndsRun ==
    /\ [](\A i \in DOMAIN slackPosts :
            /\ slackPosts[i].method = chatPostMessage
            /\ (i \in FailedPosts /\ i > 1) =>
                   /\ i = Len(slackPosts)
                   /\ \A j \in 1..(i - 1) : slackPosts[j].outcome = "ok"
                   /\ pc = "exited"
                   /\ runError = RunError("reply", personStatusGroups[i - 1].Person,
                                          slackPosts[i].outcome))
    /\ [][\A i \in DOMAIN slackPosts :
             i \in DOMAIN slackPosts' /\ slackPosts'[i] = slackPosts[i]]_vars

\* The second of three replies failed: the first reply and the root are in the
\* log and the third person's reply was never sent.
C11_Witness ==
    /\ pc = "exited"
    /\ Len(personStatusGroups) = 3
    /\ Len(slackPosts) = 3
    /\ slackPosts[2].outcome = "ok"
    /\ slackPosts[3].outcome = "not_ok"
    /\ runError.person = personStatusGroups[2].Person

FailedRequests == {i \in DOMAIN jiraRequests : jiraRequests[i].outcome # "ok"}

C15_FlagPositionIndependent ==
    (call.op = "parse" /\ call.done) =>
        IF call.flagAt = NoFlag
        THEN ~call.includeAll /\ call.username = TrimSpace(call.text)
        ELSE call.includeAll /\ call.username = JoinWords(call.words)

SameLetter(a, b) ==
    \/ a = b
    \/ a \in 65..90 /\ b = a + 32
    \/ b \in 65..90 /\ a = b + 32

ContainsFolded(haystack, needle) ==
    \E k \in 0..(Len(haystack) - Len(needle)) :
        \A i \in 1..Len(needle) : SameLetter(haystack[k + i], needle[i])

\* What the claim requires of a record; the display name of an absent person
\* is the empty string.
Wanted(r, name, skipFilters) ==
    /\ \/ ContainsFolded(r.Assignee.DisplayName, name)
       \/ ContainsFolded(r.QAContact.DisplayName, name)
    /\ skipFilters \/ (/\ ~HasExcludedComponent(r)
                       /\ ~HasExcludedLabel(r)
                       /\ (r.IssueType # "Epic"
                              \/ Len(extractPRs(r.GitPullRequest)) > 0))

\* C18: the value of filterIssuesByUser holds, in fetch order, one item for
\* each record whose assignee or QA-contact display name contains the name
\* as a case-insensitive substring and which, when skipFilters is false,
\* has no excluded component or label and is not an Epic without a PR link;
\* it holds no other item.
C18_FilterByUser ==
    (call.op = "filter" /\ call.done) =>
        LET recs == ResponseIssues(call.responses)
            wanted == SelectSeq(recs,
                          LAMBDA r : Wanted(r, call.username, call.skipFilters))
        IN /\ Len(call.result) = Len(wanted)
           /\ \A i \in DOMAIN wanted :
                 /\ call.result[i].Key = wanted[i].Key
                 /\ call.result[i].Status = wanted[i].Status
                 /\ call.result[i].Summary = wanted[i].Summary

\* A call with skipFilters = TRUE for "jane" kept a record with an excluded
\* component and a record where Jane is the QA contact of an Epic without a
\* PR link, in the order of the two pages they came in.
C18_Witness ==
    /\ call.op = "filter" /\ call.done
    /\ call.skipFilters
    /\ call.username = <<106, 97, 110, 101>>
    /\ Len(call.responses) = 2
    /\ Len(call.result) = 2
    /\ \E r \in Range(ResponseIssues(call.responses)) : HasExcludedComponent(r)
    /\ \E r \in Range(ResponseIssues(call.responses)) :
          r.IssueType = "Epic" /\ ~r.Assignee.present

Lookups(task) == SelectSeq(task.trace, LAMBDA e : e.api = "users.info")

ResponsePosts(task) == SelectSeq(task.trace, LAMBDA e : e.api = "response_url")

Increasing(offsets) == \A i, j \in DOMAIN offsets : i < j => offsets[i] < offsets[j]

SearchOffsets(task) ==
    [i \in DOMAIN SearchRequests(task) |-> SearchRequests(task)[i].startAt]

\* The error message that answers a failed lookup or a failed search.
AnswerTo(api) == IF api = "users.info" THEN "specify_name" ELSE "fetch_failed"

\* C12: no HTTP step is made twice and a failed one ends its operation at
\* once and is reported.  In a batch run the search requests have strictly
\* increasing offsets, the Slack requests are the root followed by the reply
\* of each person group in turn, a failed request is the last request of the
\* run, and the run has exited reporting that step.  In an interactive
\* request there is at most one lookup, the search offsets are strictly
\* increasing, there is at most one post to the response_url, a failed lookup
\* or search is followed only by the error message for it, a failed post is
\* followed by nothing, and the failure is among those recorded for the
\* goroutine.
C12_NothingRetried ==
    /\ Increasing([i \in DOMAIN jiraRequests |-> jiraRequests[i].startAt])
    /\ \A i \in FailedRequests :
          /\ i = Len(jiraRequests)
          /\ slackPosts = <<>>
          /\ pc = "exited"
          /\ runError = RunError("fetch", <<>>, jiraRequests[i].outcome)
    /\ Len(slackPosts) <= Len(personStatusGroups) + 1
    /\ \A i \in DOMAIN slackPosts :
          IF i = 1 THEN IsRootPost(slackPosts[i]) ELSE IsReplyOf(slackPosts[i], i - 1)
    /\ \A i \in FailedPosts :
          /\ i = Len(slackPosts)
          /\ pc = "exited"
          /\ runError.step = (IF i = 1 THEN "root" ELSE "reply")
          /\ runError.cause = slackPosts[i].outcome
    /\ \A t \in DOMAIN tasks :
          LET task == tasks[t]
              n == Len(task.trace)
          IN /\ Len(Lookups(task)) <= 1
             /\ Increasing(SearchOffsets(task))
             /\ Len(ResponsePosts(task)) <= 1
             /\ \A i \in 1..n :
                   task.trace[i].outcome # "ok" =>
                      /\ task.pc = "done"
                      /\ IF task.trace[i].api = "response_url"
                         THEN /\ i = n
                              /\ task.errors[Len(task.errors)]
                                     \in {"send_error", "send_result"}
                         ELSE /\ i + 1 = n
                              /\ task.trace[n].api = "response_url"
                              /\ task.trace[n].payload.text.msg
                                     = AnswerTo(task.trace[i].api)
                              /\ (IF task.trace[i].api = "users.info" THEN "lookup"
                                   ELSE "fetch") \in Range(task.errors)

\* An interactive request whose lookup succeeded, whose first search request
\* was answered with an empty page and whose second search request, at the
\* next offset, failed: the error message is its last request.
C12_Witness ==
    \E t \in DOMAIN tasks :
        LET task == tasks[t]
        IN /\ Len(task.trace) = 4
           /\ task.trace[1].api = "users.info" /\ task.trace[1].outcome = "ok"
           /\ task.trace[2].api = "jira.search" /\ task.trace[2].outcome = "ok"
           /\ task.trace[3].api = "jira.search" /\ task.trace[3].outcome # "ok"
           /\ task.trace[3].startAt = maxResults
           /\ task.trace[4].api = "response_url"

Acks == {i \in DOMAIN served : served[i].status = 200}

ErrorMessages == {"config_jira", "config_slack", "specify_name", "fetch_failed"}

IsErrorMessage(e) ==
    /\ e.api = "response_url"
    /\ e.payload.response_type = "ephemeral"
    /\ e.payload.text.msg \in ErrorMessages

ListenerAccepts == Len(served) < MaxCommands => ENABLED handleMyIssuesCommand

\* C14 as stated: a goroutine that ended after a failure of any of the four
\* kinds has sent an error message, and the listener goes on accepting.
C14_EveryFailureAnswered ==
    /\ \A t \in DOMAIN tasks :
          (tasks[t].pc = "done"
              /\ Range(tasks[t].errors)
                     \cap {"config", "lookup", "fetch", "send_result"} # {}) =>
             \E i \in DOMAIN tasks[t].trace : IsErrorMessage(tasks[t].trace[i])
    /\ ListenerAccepts

\* C14, amended: a goroutine that found the configuration incomplete, or whose
\* lookup or search failed, ends with an ephemeral error message for that
\* failure as its only post to the response_url; a goroutine whose result
\* could not be delivered only logs it, its failed post is its last request;
\* and whatever has failed the listener accepts the next request.
C14_FailuresAnsweredButDelivery ==
    /\ \A t \in DOMAIN tasks :
          LET task == tasks[t]
              n == Len(task.trace)
          IN /\ (Range(task.errors) \cap {"config", "lookup", "fetch"} # {}) =>
                    /\ task.pc = "done"
                    /\ IsErrorMessage(task.trace[n])
                    /\ task.trace[n].payload.text.msg \in
                           (IF "config" \in Range(task.errors)
                            THEN {"config_jira", "config_slack"}
                            ELSE IF "lookup" \in Range(task.errors)
                            THEN {"specify_name"}
                            ELSE {"fetch_failed"})
                    /\ Len(ResponsePosts(task)) = 1
             /\ "send_result" \in Range(task.errors) =>
                    /\ task.pc = "done"
                    /\ task.trace[n].api = "response_url"
                    /\ task.trace[n].outcome # "ok"
                    /\ task.trace[n].payload.blocks # <<>>
                    /\ Len(ResponsePosts(task)) = 1
    /\ ListenerAccepts

\* The first command ended with a failed search and its error message, and
\* the second command was acknowledged after that.
C14_Witness ==
    /\ Len(tasks) = 2
    /\ "fetch" \in Range(tasks[1].errors)
    /\ IsErrorMessage(tasks[1].trace[Len(tasks[1].trace)])
    /\ 1 \in served[tasks[2].request].after

\* The goroutine has got past the configuration check and the lookup step.
PastLookup(task) == task.pc \notin {"start", "lookup"} /\ "config" \notin Range(task.errors)

\* No name remains once the flag token is taken out of the text and the rest
\* is trimmed: the text holds blanks and flag tokens only.
RECURSIVE OnlyBlanksAndFlags(_)
OnlyBlanksAndFlags(text) ==
    \/ text = <<>>
    \/ IsSpace(Head(text)) /\ OnlyBlanksAndFlags(Tail(text))
    \/ /\ Len(text) >= Len(FlagAll)
       /\ SubSeq(text, 1, Len(FlagAll)) = FlagAll
       /\ OnlyBlanksAndFlags(SubSeq(text, Len(FlagAll) + 1, Len(text)))

\* C16: a goroutine asks the directory at most once and only when no name
\* remains in its command text, and a goroutine that has got past the
\* configuration check and the lookup step has asked the directory if no
\* name remained; after a failed lookup the goroutine has ended, its only
\* other request is the error message asking for a name, and it has issued
\* no search request.
C16_LookupIffNoName ==
    \A t \in DOMAIN tasks :
        LET task == tasks[t]
            noName == OnlyBlanksAndFlags(task.cmd.Text)
        IN /\ Len(Lookups(task)) <= 1
           /\ Lookups(task) # <<>> => noName
           /\ (PastLookup(task) /\ noName) => Len(Lookups(task)) = 1
           /\ (Lookups(task) # <<>> /\ Lookups(task)[1].outcome # "ok") =>
                  /\ task.pc = "done"
                  /\ Len(task.trace) = 2
                  /\ task.trace[1].api = "users.info"
                  /\ task.trace[2].api = "response_url"
                  /\ task.trace[2].payload = SlashPayload(
                         MessageText("specify_name", <<>>, ""), <<>>)
                  /\ SearchRequests(task) = <<>>

\* One command without a name ended with a failed lookup, and another command
\* with a name has searched without asking the directory.
C16_Witness ==
    \E t, u \in DOMAIN tasks :
        /\ tasks[t].cmd.Text = FlagAll
        /\ Lookups(tasks[t]) # <<>> /\ Lookups(tasks[t])[1].outcome # "ok"
        /\ tasks[t].pc = "done"
        /\ tasks[u].username # <<>>
        /\ Lookups(tasks[u]) = <<>>
        /\ SearchRequests(tasks[u]) # <<>>

SearchSucceeded(task) ==
    /\ task.pc \in {"filter", "done"}
    /\ SearchRequests(task) # <<>>
    /\ \A i \in DOMAIN SearchRequests(task) : SearchRequests(task)[i].outcome = "ok"

NoRecordMatches(task) ==
    \A r \in Range(ResponseIssues(task.allResults)) : ~Wanted(r, task.username, TRUE)

\* C17: a goroutine that has ended after a successful fetch none of whose
\* records matches the name has made one post to the response_url, an
\* ephemeral payload whose text is the no-issues message with exactly the
\* name queried and which has no blocks, and it has not called
\* buildEphemeralStatusBlocks; a goroutine calls it only when a record
\* matches.
C17_NoMatchIsTextOnly ==
    \A t \in DOMAIN tasks :
        LET task == tasks[t]
            posts == ResponsePosts(task)
        IN /\ (task.pc = "done" /\ SearchSucceeded(task) /\ NoRecordMatches(task)) =>
                  /\ Len(posts) = 1
                  /\ posts[1].payload.response_type = "ephemeral"
                  /\ posts[1].payload.text.msg = "no_issues"
                  /\ posts[1].payload.text.name = task.username
                  /\ posts[1].payload.blocks = <<>>
                  /\ ~task.built
           /\ task.built => ~NoRecordMatches(task)

\* A search for "jane" returned a record of somebody else only and the
\* goroutine has ended.
C17_Witness ==
    \E t \in DOMAIN tasks :
        /\ tasks[t].pc = "done"
        /\ SearchSucceeded(tasks[t])
        /\ tasks[t].username = <<106, 97, 110, 101>>
        /\ ResponseIssues(tasks[t].allResults) # <<>>
        /\ NoRecordMatches(tasks[t])

C21_AtMostMaxBlocks ==
    ephPc = "built" => Len(ephBlocks) <= 48

\* C21: the interactive result holds at most 48 blocks besides the truncation
\* marker (header, summary, divider, status headers and items), and at most
\* 49 blocks with it.
C21_AtMostMaxBlocksAndMarker ==
    ephPc = "built" =>
        /\ Len(SelectSeq(ephBlocks, LAMBDA b : ~IsMarker(b))) <= 48
        /\ Len(ephBlocks) <= 49

C21_Witness ==
    /\ ephPc = "built"
    /\ Len(ephBlocks) = 49
    /\ IsMarker(ephBlocks[49])

\* C22: the interactive result never holds more than 50 blocks, it holds at
\* most one truncation marker, and the marker is its last block: no status
\* header and no item follows it.
C22_SlackLimitAndOneMarker ==
    ephPc = "built" =>
        /\ Len(ephBlocks) <= 50
        /\ Len(SelectSeq(ephBlocks, IsMarker)) <= 1
        /\ \A i, j \in DOMAIN ephBlocks :
              (IsMarker(ephBlocks[i]) /\ i < j)
                  => ephBlocks[j].kind \notin {"status", "item"}

C22_Witness ==
    /\ ephPc = "built"
    /\ \E i \in DOMAIN ephBlocks :
          /\ ephBlocks[i].kind = "more_in_status"
          /\ i = Len(ephBlocks)
    /\ Cardinality({s \in DOMAIN statusGroups : s \in Range(ephStatusOrder)}) > 1

(***************************************************************************)
(* The order of the batch report.                                          *)
(***************************************************************************)
\* The place of a status in the preferred sequence of the batch report, 0 when
\* it is not in it.
PreferredIndex(status) ==
    IF \E i \in DOMAIN batchStatusOrder : batchStatusOrder[i] = status
    THEN CHOOSE i \in DOMAIN batchStatusOrder : batchStatusOrder[i] = status
    ELSE 0

\* The statuses of the status headers of the k-th reply, in their order.
ReplyStatuses(k) ==
    LET headers == BlocksOfKind(ReplyBlocks(k), "status")
    IN [i \in DOMAIN headers |-> headers[i].status]

\* C23: the person groups come in strictly ascending bytewise order of the
\* person's name, the k-th reply is the message of the k-th group, and in every
\* reply the statuses of the preferred sequence come in the order of that
\* sequence and before every status outside it.
C23_PeopleAndStatusesOrdered ==
    /\ \A i, j \in DOMAIN personStatusGroups :
          i < j => StrLess(personStatusGroups[i].Person, personStatusGroups[j].Person)
    /\ \A k \in 1..(Len(slackPosts) - 1) :
          /\ IsReplyOf(slackPosts[k + 1], k)
          /\ \A a, b \in DOMAIN ReplyStatuses(k) :
                a < b =>
                    LET ia == PreferredIndex(ReplyStatuses(k)[a])
                        ib == PreferredIndex(ReplyStatuses(k)[b])
                    IN IF ia = 0 THEN ib = 0 ELSE (ib = 0 \/ ia < ib)

C23_Witness ==
    /\ pc = "done"
    /\ Len(slackPosts) = 3
    /\ ResponsiblePerson(remote[1]) = Zed
    /\ remote[2].Status = "New"
    /\ ReplyStatuses(1) = <<"MODIFIED", "New">>
    /\ ReplyStatuses(2) = <<"POST">>

\* C24: in every reply the statuses outside the preferred sequence come in
\* the order in which the fetched records first show them: of two such
\* statuses, the one rendered first is the one whose first item was fetched
\* first.
C24_OtherStatusesInFetchOrder ==
    \A k \in 1..(Len(slackPosts) - 1) :
        LET buckets == personStatusGroups[k].StatusGroups
            others == SelectSeq(ReplyStatuses(k), LAMBDA s : PreferredIndex(s) = 0)
        IN \A a, b \in DOMAIN others :
               a < b => buckets[others[a]][1].Key < buckets[others[b]][1].Key

(***************************************************************************)
(* The person groups as a partition of the surviving records.              *)
(***************************************************************************)
\* The places of the groups: group, status bucket and position in the bucket.
Places ==
    UNION {UNION {{<<k, s, i>> : i \in DOMAIN personStatusGroups[k].StatusGroups[s]} :
                     s \in DOMAIN personStatusGroups[k].StatusGroups} :
              k \in DOMAIN personStatusGroups}

ItemAt(place) == personStatusGroups[place[1]].StatusGroups[place[2]][place[3]]

\* A position of the records that holds the record of the key, 0 when none
\* does.
FetchedAt(recs, key) ==
    IF \E n \in DOMAIN recs : recs[n].Key = key
    THEN CHOOSE n \in DOMAIN recs : recs[n].Key = key
    ELSE 0

\* The record is kept by the filters of the batch report.
Kept(r) ==
    /\ ~HasExcludedComponent(r)
    /\ ~HasExcludedLabel(r)
    /\ ~(r.IssueType = "Epic" /\ NonEmptyStrings(r.GitPullRequest) = <<>>)

\* C28: every fetched record the filters keep has exactly one place in the
\* groups and the other records have none; every place holds a fetched record,
\* in the bucket named by the record's status and with its key and status;
\* the items of a bucket are in the order of the fetch; and TotalIssues of a
\* group is the number of its places.
C28_GroupsPartitionRecords ==
    Grouped =>
        LET recs == FetchedRecords
            places == Places
            keys == {ItemAt(place).Key : place \in places}
        IN /\ Cardinality(keys) = Cardinality(places)
           /\ \A n \in DOMAIN recs : Kept(recs[n]) <=> recs[n].Key \in keys
           /\ \A place \in places :
                 LET n == FetchedAt(recs, ItemAt(place).Key)
                 IN /\ n > 0
                    /\ recs[n].Status = place[2]
                    /\ ItemAt(place).Status = place[2]
                    /\ place[3] > 1 =>
                          FetchedAt(recs, ItemAt(<<place[1], place[2], place[3] - 1>>).Key) < n
           /\ \A k \in DOMAIN personStatusGroups :
                 personStatusGroups[k].TotalIssues
                     = Cardinality({place \in places : place[1] = k})

C28_Witness ==
    /\ Grouped
    /\ Len(personStatusGroups) = 2
    /\ \E p, q \in Places :
          /\ p[1] = q[1] /\ p[2] = q[2]
          /\ ItemAt(p).Key = 1 /\ ItemAt(q).Key = 3
    /\ \E p \in Places : ItemAt(p).Key = 2

(***************************************************************************)
(* The summary of a rendered issue.                                        *)
(***************************************************************************)
\* The text with every ampersand and angle bracket written as its entity,
\* character by character.
RECURSIVE WithEntities(_)
WithEntities(text) ==
    IF text = <<>> THEN <<>>
    ELSE IF Len(text) > 1
         THEN WithEntities(SubSeq(text, 1, Len(text) \div 2))
                  \o WithEntities(SubSeq(text, Len(text) \div 2 + 1, Len(text)))
    ELSE IF text[1] = 38 THEN <<38, 97, 109, 112, 59>>
    ELSE IF text[1] = 60 THEN <<38, 108, 116, 59>>
    ELSE IF text[1] = 62 THEN <<38, 103, 116, 59>>
    ELSE text

\* The summaries of the item blocks rendered by the call.
RenderedSummaries ==
    LET items == BlocksOfKind(call.blocks, "item")
    IN [i \in DOMAIN items |-> items[i].summary]

\* C25: the summary is rendered once in each of the three places, as the text
\* in which every ampersand and angle bracket of the summary is replaced by
\* its entity and nothing else is, or as the first bytes of that text followed
\* by three dots; "<a&b>" is rendered as "&lt;a&amp;b&gt;".
C25_SummaryEscapedOnce ==
    (call.op = "render" /\ call.done) =>
        LET once == WithEntities(call.issue.Summary)
        IN /\ Len(RenderedSummaries) = 1
           /\ \E n \in 0..Len(once) :
                 RenderedSummaries[1]
                     = SubSeq(once, 1, n) \o (IF n < Len(once) THEN <<46, 46, 46>> ELSE <<>>)
           /\ call.issue.Summary = <<60, 97, 38, 98, 62>> =>
                 RenderedSummaries[1]
                     = <<38, 108, 116, 59, 97, 38, 97, 109, 112, 59, 98, 38, 103, 116, 59>>

C25_Witness ==
    /\ call.op = "render" /\ call.done
    /\ call.context = "status-group"
    /\ call.issue.Summary = <<60, 97, 38, 98, 62>>
    /\ Len(RenderedSummaries[1]) = 15

C29_NameNeverEmpty ==
    \A t \in DOMAIN tasks :
        (tasks[t].pc \in {"fetch", "filter"} \/ SearchRequests(tasks[t]) # <<>>)
            => tasks[t].username # <<>>

\* C30: a request that is not a POST is answered with 405 and a POST whose
\* form cannot be parsed with 400, both in plain text without the
\* acknowledgment, and no goroutine belongs to them; answering them starts no
\* goroutine and lets no goroutine make a request; every other POST is
\* answered with 200 and has exactly one goroutine, which is started in the
\* step that writes the 200 and never in another.
C30_RejectedWithoutEffect ==
    /\ [](\A i \in DOMAIN served :
             LET e == served[i]
                 mine == {t \in DOMAIN tasks : tasks[t].request = i}
             IN /\ e.status = (IF e.method # "POST" THEN 405
                               ELSE IF ~e.formOk THEN 400 ELSE 200)
                /\ e.status # 200 =>
                       /\ ~e.json
                       /\ e.payload.response_type = ""
                       /\ e.payload.text = NoText
                       /\ e.payload.blocks = <<>>
                       /\ mine = {}
                /\ e.status = 200 => Cardinality(mine) = 1)
    /\ [][/\ ((Len(served') > Len(served) /\ served'[Len(served')].status # 200)
                  => tasks' = tasks)
           /\ (Len(tasks') > Len(tasks) =>
                  /\ Len(tasks') = Len(tasks) + 1
                  /\ Len(served') = Len(served) + 1
                  /\ served'[Len(served')].status = 200
                  /\ served'[Len(served')].method = "POST"
                  /\ served'[Len(served')].formOk)]_vars

C30_Witness ==
    /\ Len(served) = 2
    /\ served[1].status = 400
    /\ served[2].status = 200
    /\ Len(tasks) = 1
    /\ tasks[1].request = 2
    /\ tasks[1].pc = "done"

\* The goroutine has read its configuration and found it complete.
Configured(task) == task.pc # "start" /\ (task.errors = <<>> \/ task.errors[1] # "config")

\* C27: a step of a goroutine changes the state of that goroutine and nothing
\* else, and the start of a goroutine changes no other goroutine; a goroutine
\* posts to the response_url of its own request only; the flag and the name it
\* works with are those of its own command text, or the name the directory
\* gave it when the text holds none; its searches ask for its own query and
\* its pages are the answers to them; and the message it posts is the one
\* built from its own name, flag and pages.
C27_GoroutinesIsolated ==
    /\ [](\A t \in DOMAIN tasks :
             LET task == tasks[t]
                 parsed == ParseCommandText(task.cmd.Text)
                 posts == ResponsePosts(task)
                 searches == SearchRequests(task)
                 jql == buildJQLQuery(task.username, parsed.includeAll)
                 found == filterIssuesByUser(task.allResults, task.username, TRUE)
                 groups == groupIssuesByStatus(found)
             IN /\ task.cmd.ResponseURL = ResponseURLOf(task.request)
                /\ \A i \in DOMAIN posts : posts[i].url = ResponseURLOf(task.request)
                /\ Configured(task) =>
                       /\ task.includeAll = parsed.includeAll
                       /\ IF parsed.username # <<>> THEN task.username = parsed.username
                          ELSE \/ task.username = <<>> /\ searches = <<>>
                               \/ \E user \in Profiles : task.username = RealNameOf(user)
                /\ \A i \in DOMAIN searches : searches[i].jql = jql
                /\ \A i \in DOMAIN task.allResults :
                       LET page == task.allResults[i]
                       IN page = SlashServerResponse(SearchResult(jql), page.StartAt,
                                                     Len(page.Issues))
                /\ (task.pc = "done" /\ task.built) =>
                       \E ranged \in Orders(OtherStatuses(ephStatusOrder, groups)) :
                           posts[1].payload
                               = SlashPayload(NoText,
                                     buildEphemeralStatusBlocks(task.username, groups,
                                         parsed.includeAll, ranged))
                /\ (task.pc = "done" /\ ~task.built /\ task.errors \in {<<>>, <<"send_error">>}) =>
                       posts[1].payload = SlashPayload(NoIssuesText(task.username), <<>>))
    /\ [][/\ \A t \in DOMAIN tasks :
                 tasks'[t] # tasks[t] =>
                     /\ \A u \in DOMAIN tasks : u # t => tasks'[u] = tasks[u]
                     /\ Len(tasks') = Len(tasks)
                     /\ UNCHANGED <<batchVars, ephVars, served, call>>]_vars

C27_Witness ==
    /\ Len(tasks) = 2
    /\ tasks[1].cmd.Text # tasks[2].cmd.Text
    /\ tasks[1].pc = "fetch"
    /\ SearchRequests(tasks[1]) # <<>>
    /\ tasks[2].pc = "done"
    /\ tasks[2].built


====
